---- MODULE Spec2Model ----
(***************************************************************************)
(* NonTopologicallySortedFunctions::check_mod                              *)
(* (examples/restriction/non_topologically_sorted_functions/src/lib.rs).   *)
(*                                                                         *)
(* One run of check_mod over one module.  The module is the input: a list  *)
(* of items, each a function with a body or some other item.  A body is    *)
(* the sequence of call expressions with a resolved path callee, in the    *)
(* order Finder::visit_expr meets them; each call is the item it resolves  *)
(* to.  An item's LocalDefId is its index in the module's item list.       *)
(***************************************************************************)
EXTENDS Integers, Sequences, FiniteSets, TLC

\* Number of items of the module.
MaxItems == 3

\* Size of the module: its call expressions plus its items that are no
\* functions.
MaxSize == 4

ItemIds == 1..MaxItems

VARIABLES
  module,            \* the module under analysis (input, never written)
  pc,                \* position in check_mod
  def_order,         \* Vec<LocalDefId>
  functions,         \* HashMap<LocalDefId, FnMeta>
  must_come_before,  \* HashSet<(LocalDefId, LocalDefId)>
  ci,                \* index in def_order of the caller of the current iteration
  callees,           \* call sequence of the current caller
  i, j,              \* loop indices in the two builders
  violations,        \* sorted violations not yet visited by the emission loop
  warned,            \* HashSet<LocalDefId>
  diags              \* diagnostics handed to span_lint, in order

vars == <<module, pc, def_order, functions, must_come_before, ci, callees,
          i, j, violations, warned, diags>>

None == [none |-> TRUE]

Panic == [panic |-> TRUE]

----------------------------------------------------------------------------
\* Inputs

FnItem(body) == [kind |-> "Fn", body |-> body]

OtherItem == [kind |-> "Other", body |-> <<>>]

\* A shape gives each item its number of call expressions, -1 for an item
\* that is no function.
CallsOf(n) == IF n < 0 THEN 0 ELSE n

SizeOf(n) == IF n < 0 THEN 1 ELSE n

RECURSIVE CallsUpTo(_, _)
CallsUpTo(shape, k) ==
  IF k = 0 THEN 0 ELSE CallsUpTo(shape, k - 1) + CallsOf(shape[k])

RECURSIVE SizeUpTo(_, _)
SizeUpTo(shape, k) ==
  IF k = 0 THEN 0 ELSE SizeUpTo(shape, k - 1) + SizeOf(shape[k])

Shapes ==
  {shape \in [ItemIds -> -1..MaxSize] : SizeUpTo(shape, MaxItems) <= MaxSize}

\* The module of a shape whose call expressions, read item after item, resolve
\* to the items of targets.
ModuleOf(shape, targets) ==
  [k \in ItemIds |->
     IF shape[k] < 0 THEN OtherItem
     ELSE FnItem([c \in 1..shape[k] |-> targets[CallsUpTo(shape, k - 1) + c]])]

----------------------------------------------------------------------------
\* Scope collection (check_mod, first loop)

RECURSIVE CollectFrom(_, _, _, _, _)
CollectFrom(m, k, idx, order, fns) ==
  IF k > Len(m) THEN [def_order |-> order, functions |-> fns]
  ELSE IF m[k].kind = "Fn"
       THEN CollectFrom(m, k + 1, idx + 1, Append(order, k),
                        [x \in DOMAIN fns \cup {k} |->
                           IF x = k THEN [position_number |-> idx, span |-> k]
                           ELSE fns[x]])
       ELSE CollectFrom(m, k + 1, idx, order, fns)

EmptyMap == [x \in {} |-> None]

Collect(m) == CollectFrom(m, 1, 0, <<>>, EmptyMap)

\* find_caller_body: the body of the function item whose id is caller_id.
RECURSIVE FindBodyFrom(_, _, _)
FindBodyFrom(m, k, caller_id) ==
  IF k > Len(m) THEN None
  ELSE IF m[k].kind = "Fn" /\ k = caller_id THEN [body |-> m[k].body]
  ELSE FindBodyFrom(m, k + 1, caller_id)

find_caller_body(m, caller_id) == FindBodyFrom(m, 1, caller_id)

----------------------------------------------------------------------------
\* Call extraction (Finder::visit_expr over the body)

visit_expr(st, target, local_defs) ==
  IF target \in DOMAIN local_defs /\ target \notin st.seen
  THEN [seen |-> st.seen \cup {target}, order |-> Append(st.order, target)]
  ELSE st

RECURSIVE WalkBody(_, _, _, _)
WalkBody(body, k, st, local_defs) ==
  IF k > Len(body) THEN st
  ELSE WalkBody(body, k + 1, visit_expr(st, body[k], local_defs), local_defs)

collect_callees_in_body(body, local_defs) ==
  WalkBody(body, 1, [seen |-> {}, order |-> <<>>], local_defs).order

----------------------------------------------------------------------------
\* Constraint builder

\* build_caller_callee_constraint without the test for the reverse pair.
CallerCalleeInsertUnchecked(caller_id, callee_id, mcb) ==
  mcb \cup {<<caller_id, callee_id>>}

\* build_caller_callee_constraint letting the later assertion win.
CallerCalleeInsertLastWins(caller_id, callee_id, mcb) ==
  (mcb \ {<<callee_id, caller_id>>}) \cup {<<caller_id, callee_id>>}

\* build_caller_callee_constraint inserting (callee, caller).
CallerCalleeInsertReversed(caller_id, callee_id, mcb) ==
  IF <<caller_id, callee_id>> \in mcb THEN mcb
  ELSE mcb \cup {<<callee_id, caller_id>>}

\* One iteration of the loop of build_caller_callee_constraint.
CallerCalleeInsert(caller_id, callee_id, mcb) ==
  IF <<callee_id, caller_id>> \in mcb THEN mcb
  ELSE mcb \cup {<<caller_id, callee_id>>}

RECURSIVE CallerCalleeFrom(_, _, _, _)
CallerCalleeFrom(caller_id, cs, k, mcb) ==
  IF k > Len(cs) THEN mcb
  ELSE CallerCalleeFrom(caller_id, cs, k + 1,
                        CallerCalleeInsert(caller_id, cs[k], mcb))

build_caller_callee_constraint(caller_id, cs, mcb) ==
  CallerCalleeFrom(caller_id, cs, 1, mcb)

\* build_multiple_precedence_rule without the test for the reverse pair.
PrecedenceInsertUnchecked(a, b, mcb) == mcb \cup {<<a, b>>}

\* build_multiple_precedence_rule letting the later assertion win.
PrecedenceInsertLastWins(a, b, mcb) == (mcb \ {<<b, a>>}) \cup {<<a, b>>}

\* One iteration of the inner loop of build_multiple_precedence_rule.
PrecedenceInsert(a, b, mcb) ==
  IF <<b, a>> \in mcb THEN mcb
  ELSE mcb \cup {<<a, b>>}

RECURSIVE PrecedenceFrom(_, _, _, _)
PrecedenceFrom(cs, a, b, mcb) ==
  IF a > Len(cs) THEN mcb
  ELSE IF b > Len(cs) THEN PrecedenceFrom(cs, a + 1, a + 2, mcb)
  ELSE PrecedenceFrom(cs, a, b + 1, PrecedenceInsert(cs[a], cs[b], mcb))

build_multiple_precedence_rule(cs, mcb) == PrecedenceFrom(cs, 1, 2, mcb)

----------------------------------------------------------------------------
\* Violation selector

\* tcx.def_path_str: the items of one module have pairwise distinct paths;
\* their order is unrelated to the order of the ids.
def_path_str(id) == (id * 3) % 7

\* The closure of the filter_map with idx_a >= idx_b for idx_a > idx_b.
violation_of_not_before(pair, fns) ==
  LET a == pair[1]
      b == pair[2]
  IN IF a \notin DOMAIN fns THEN None
     ELSE IF b \notin DOMAIN fns THEN None
     ELSE IF fns[a].position_number >= fns[b].position_number
          THEN [fn_meta |-> fns[a],
                id_first_fn |-> a,
                idx_first_fn |-> fns[a].position_number,
                idx_second_fn |-> fns[b].position_number,
                name_first_fn |-> def_path_str(a),
                name_second_fn |-> def_path_str(b)]
          ELSE None

\* The closure of the filter_map of find_violations.
violation_of(pair, fns) ==
  LET a == pair[1]
      b == pair[2]
  IN IF a \notin DOMAIN fns THEN None
     ELSE IF b \notin DOMAIN fns THEN None
     ELSE IF fns[a].position_number > fns[b].position_number
          THEN IF a \notin DOMAIN fns THEN Panic
               ELSE [fn_meta |-> fns[a],
                     id_first_fn |-> a,
                     idx_first_fn |-> fns[a].position_number,
                     idx_second_fn |-> fns[b].position_number,
                     name_first_fn |-> def_path_str(a),
                     name_second_fn |-> def_path_str(b)]
          ELSE None

cmp(x, y) == IF x < y THEN -1 ELSE IF x > y THEN 1 ELSE 0

then(c, d) == IF c # 0 THEN c ELSE d

\* The comparator without its second key.
compare_first_only(v1, v2) ==
  then(cmp(v1.idx_first_fn, v2.idx_first_fn),
       cmp(v1.name_first_fn, v2.name_first_fn))

\* The comparator with its second key descending.
compare_second_descending(v1, v2) ==
  then(then(cmp(v1.idx_first_fn, v2.idx_first_fn),
            cmp(v2.idx_second_fn, v1.idx_second_fn)),
       cmp(v1.name_first_fn, v2.name_first_fn))

\* The comparator handed to sort_by.
compare(v1, v2) ==
  then(then(cmp(v1.idx_first_fn, v2.idx_first_fn),
            cmp(v1.idx_second_fn, v2.idx_second_fn)),
       cmp(v1.name_first_fn, v2.name_first_fn))

\* sort_by is a stable sort: v goes behind every element that is not greater.
RECURSIVE InsertSorted(_, _)
InsertSorted(s, v) ==
  IF s = <<>> THEN <<v>>
  ELSE IF compare(s[Len(s)], v) <= 0 THEN Append(s, v)
  ELSE Append(InsertSorted(SubSeq(s, 1, Len(s) - 1), v), s[Len(s)])

\* The pairs the filter_map keeps.
Kept(mcb, fns) == {p \in mcb : violation_of(p, fns) # None}

\* collect() followed by sort_by, for every order in which the HashSet may
\* hand out its elements: each <<rest, acc>> of P is a run of the iteration
\* with the violations of rest still to come and acc the sorted ones so far.
RECURSIVE SortedFrom(_)
SortedFrom(P) ==
  IF \A r \in P : r[1] = {} THEN {r[2] : r \in P}
  ELSE SortedFrom(UNION {{<<r[1] \ {v}, InsertSorted(r[2], v)>> : v \in r[1]}
                         : r \in P})

\* The results find_violations may return: one for each iteration order of
\* must_come_before.
find_violations(mcb, fns) ==
  SortedFrom({<<{violation_of(p, fns) : p \in Kept(mcb, fns)}, <<>>>>})

----------------------------------------------------------------------------
\* check_mod as a state machine

Init ==
  /\ \E shape \in Shapes :
       \E targets \in [1..CallsUpTo(shape, MaxItems) -> ItemIds] :
         module = ModuleOf(shape, targets)
  /\ pc = "start"
  /\ def_order = <<>>
  /\ functions = EmptyMap
  /\ must_come_before = {}
  /\ ci = 0
  /\ callees = <<>>
  /\ i = 0
  /\ j = 0
  /\ violations = <<>>
  /\ warned = {}
  /\ diags = <<>>

\* The first loop of check_mod and the early return for fewer than two
\* functions.
CollectFunctions ==
  /\ pc = "start"
  /\ LET c == Collect(module)
     IN /\ def_order' = c.def_order
        /\ functions' = c.functions
        /\ IF Len(c.def_order) < 2
           THEN pc' = "done" /\ ci' = 0
           ELSE pc' = "callers" /\ ci' = 1
  /\ UNCHANGED <<module, must_come_before, callees, i, j, violations, warned,
                 diags>>

\* The loop over def_order visiting its last caller again and again.
ToNextCallerStuck ==
  /\ pc' = "callers"
  /\ ci' = IF ci < Len(def_order) THEN ci + 1 ELSE ci
  /\ callees' = <<>>
  /\ i' = 0
  /\ j' = 0

\* The end of one iteration of the loop over def_order: on to the next caller,
\* or to find_violations behind the last one.
ToNextCaller ==
  /\ IF ci < Len(def_order)
     THEN pc' = "callers" /\ ci' = ci + 1
     ELSE pc' = "find" /\ ci' = 0
  /\ callees' = <<>>
  /\ i' = 0
  /\ j' = 0

\* Head of one iteration of the loop over def_order: find_caller_body and
\* collect_callees_in_body.  With no callee both builders return their input.
VisitCaller ==
  /\ pc = "callers"
  /\ LET caller_body == find_caller_body(module, def_order[ci])
     IN IF caller_body = None
        THEN ToNextCaller
        ELSE LET cs == collect_callees_in_body(caller_body.body, functions)
             IN IF cs = <<>>
                THEN ToNextCaller
                ELSE /\ callees' = cs
                     /\ pc' = "caller_callee"
                     /\ i' = 1
                     /\ UNCHANGED <<ci, j>>
  /\ UNCHANGED <<module, def_order, functions, must_come_before, violations,
                 warned, diags>>

\* One iteration of the loop of build_caller_callee_constraint; behind the
\* last one build_multiple_precedence_rule starts (its loops are empty for
\* fewer than two callees).
CallerCalleeIter ==
  /\ pc = "caller_callee"
  /\ must_come_before' =
       CallerCalleeInsert(def_order[ci], callees[i], must_come_before)
  /\ IF i < Len(callees)
     THEN i' = i + 1 /\ UNCHANGED <<pc, ci, callees, j>>
     ELSE IF Len(callees) >= 2
          THEN pc' = "precedence" /\ i' = 1 /\ j' = 2 /\ UNCHANGED <<ci, callees>>
          ELSE ToNextCaller
  /\ UNCHANGED <<module, def_order, functions, violations, warned, diags>>

\* One iteration of the inner loop of build_multiple_precedence_rule.
PrecedenceIter ==
  /\ pc = "precedence"
  /\ must_come_before' =
       PrecedenceInsert(callees[i], callees[j], must_come_before)
  /\ IF j < Len(callees)
     THEN j' = j + 1 /\ UNCHANGED <<pc, ci, callees, i>>
     ELSE IF i + 1 < Len(callees)
          THEN i' = i + 1 /\ j' = i + 2 /\ UNCHANGED <<pc, ci, callees>>
          ELSE ToNextCaller
  /\ UNCHANGED <<module, def_order, functions, violations, warned, diags>>

\* find_violations, for any iteration order of the constraint set.
FindViolations ==
  /\ pc = "find"
  /\ IF \E p \in must_come_before : violation_of(p, functions) = Panic
     THEN pc' = "panic" /\ violations' = <<>>
     ELSE \E vs \in find_violations(must_come_before, functions) :
            /\ violations' = vs
            /\ pc' = IF vs = <<>> THEN "done" ELSE "emit"
  /\ UNCHANGED <<module, def_order, functions, must_come_before, ci, callees,
                 i, j, warned, diags>>

\* What span_lint receives: the span and the two names of the label.
Diagnostic(v) ==
  [span |-> v.fn_meta.span,
   name_first_fn |-> v.name_first_fn,
   name_second_fn |-> v.name_second_fn]

\* The emission loop without the guard of the warned set.
warned_insert_unguarded(w, id) == [set |-> w \cup {id}, fresh |-> TRUE]

\* warned.insert(id): HashSet::insert returns whether the value is new.
warned_insert(w, id) == [set |-> w \cup {id}, fresh |-> id \notin w]

\* One iteration of the emission loop of check_mod.
Emit ==
  /\ pc = "emit"
  /\ LET v == Head(violations)
         r == warned_insert(warned, v.id_first_fn)
     IN /\ warned' = r.set
        /\ diags' = IF r.fresh THEN Append(diags, Diagnostic(v)) ELSE diags
  /\ violations' = Tail(violations)
  /\ pc' = IF Tail(violations) = <<>> THEN "done" ELSE "emit"
  /\ UNCHANGED <<module, def_order, functions, must_come_before, ci, callees,
                 i, j>>

Next ==
  \/ CollectFunctions
  \/ VisitCaller
  \/ CallerCalleeIter
  \/ PrecedenceIter
  \/ FindViolations
  \/ Emit

Spec == Init /\ [][Next]_vars

----------------------------------------------------------------------------
\* check_mod as a function of the module: the loop over def_order and the
\* emission loop, folded

RECURSIVE FoldCallers(_, _, _, _, _)
FoldCallers(m, order, fns, n, mcb) ==
  IF n = 0 THEN mcb
  ELSE LET before == FoldCallers(m, order, fns, n - 1, mcb)
           caller_body == find_caller_body(m, order[n])
       IN IF caller_body = None THEN before
          ELSE LET cs == collect_callees_in_body(caller_body.body, fns)
               IN build_multiple_precedence_rule(cs,
                    build_caller_callee_constraint(order[n], cs, before))

RECURSIVE EmitFrom(_, _, _, _)
EmitFrom(vs, k, w, out) ==
  IF k > Len(vs) THEN out
  ELSE LET r == warned_insert(w, vs[k].id_first_fn)
       IN EmitFrom(vs, k + 1, r.set,
                   IF r.fresh THEN Append(out, Diagnostic(vs[k])) ELSE out)

EmitAll(vs) == EmitFrom(vs, 1, {}, <<>>)

\* The constraint set check_mod hands to find_violations for module m.
ConstraintsOf(m) ==
  LET c == Collect(m)
  IN IF Len(c.def_order) < 2 THEN {}
     ELSE FoldCallers(m, c.def_order, c.functions, Len(c.def_order), {})

----------------------------------------------------------------------------
\* Vocabulary of the properties

Fns == DOMAIN functions

Pos(f) == functions[f].position_number

\* The call sequence of function f of the module.
CallSeq(f) == collect_callees_in_body(module[f].body, functions)

\* f's call sequence holds g.
Calls(f, g) == \E k \in 1..Len(CallSeq(f)) : CallSeq(f)[k] = g

\* The pairs <<x, y>> such that call sequence s lists x before y.
ListedPairs(s) ==
  {<<s[q[1]], s[q[2]]>> : q \in {r \in (1..Len(s)) \X (1..Len(s)) : r[1] < r[2]}}

\* The pair the current iteration of a builder asserts.
Asserted ==
  IF pc = "caller_callee" THEN {<<def_order[ci], callees[i]>>}
  ELSE IF pc = "precedence" THEN {<<callees[i], callees[j]>>}
  ELSE {}

\* The constraints the declaration order inverts.
Inverted == {p \in must_come_before : Pos(p[1]) > Pos(p[2])}

InvertedOf(f) == {p \in Inverted : p[1] = f}

\* The diagnostic "function f should be defined before g", anchored at f.
DiagOf(f, g) ==
  [span |-> functions[f].span,
   name_first_fn |-> def_path_str(f),
   name_second_fn |-> def_path_str(g)]

DiagSet == {diags[k] : k \in 1..Len(diags)}

Finished == pc = "done" /\ Len(def_order) >= 2

----------------------------------------------------------------------------
\* C1: at every step of the fold over the callers the constraint set never
\* holds both (x,y) and (y,x) for two distinct functions x and y.
NoContradictoryPair ==
  \A p \in must_come_before :
    p[1] # p[2] => <<p[2], p[1]>> \notin must_come_before

\* A finished run over a module in which two distinct functions call each other.
NoContradictoryPairWitness ==
  /\ Finished
  /\ \E f \in Fns : \E g \in Fns \ {f} : Calls(f, g) /\ Calls(g, f)

\* C8: the constraint set only grows, and an assertion whose reverse pair is
\* already in the set is dropped: the step leaves the set as it was.
FirstWriterWins ==
  [][/\ must_come_before \subseteq must_come_before'
     /\ \A p \in Asserted :
          (p[1] # p[2] /\ <<p[2], p[1]>> \in must_come_before)
            => must_come_before' = must_come_before]_vars

\* A finished run in which y calls x although (x,y) had been fixed: the set
\* holds (x,y) and not (y,x).
FirstWriterWinsWitness ==
  /\ Finished
  /\ \E x \in Fns : \E y \in Fns \ {x} :
       /\ Calls(y, x)
       /\ <<x, y>> \in must_come_before
       /\ <<y, x>> \notin must_come_before

\* C4: no function is flagged twice, so there are at most as many diagnostics
\* as functions in the scope.
AtMostOnePerFunction ==
  /\ \A k \in 1..Len(diags) : \A l \in 1..Len(diags) :
       k # l => diags[k].span # diags[l].span
  /\ Len(diags) <= Cardinality(Fns)

\* A finished run in which one function is the `before` of two inverted pairs.
AtMostOnePerFunctionWitness ==
  /\ Finished
  /\ \E f \in Fns : Cardinality(InvertedOf(f)) >= 2
  /\ Len(diags) >= 1

\* C9: the flagged functions are exactly the functions that are `before` in
\* some inverted pair of the final set, each flagged once and named against
\* the `after` of such a pair; a pair in order, or (x,x), yields nothing.
FlaggedExactlyInverted ==
  Finished =>
    /\ \A d \in DiagSet :
         \E p \in Inverted : d = DiagOf(p[1], p[2])
    /\ \A f \in Fns :
         Cardinality({k \in 1..Len(diags) : diags[k].span = functions[f].span})
           = IF InvertedOf(f) # {} THEN 1 ELSE 0

\* A finished run with a diagnostic, a self pair and a pair in order in the set.
FlaggedExactlyInvertedWitness ==
  /\ Finished
  /\ diags # <<>>
  /\ \E p \in must_come_before : p[1] = p[2]
  /\ \E p \in must_come_before : Pos(p[1]) < Pos(p[2])

\* helper2 (item 1), helper1 (item 2), main (item 3) calling helper1 then helper2.
Scenario3 ==
  <<FnItem(<<>>), FnItem(<<>>), FnItem(<<2, 1>>)>> \o
  [k \in 1..(MaxItems - 3) |-> OtherItem]

\* C5: the diagnostic of a function names the `after` with the lowest
\* declaration position among the inverted pairs it is `before` of; Scenario3
\* gets a diagnostic for main naming helper2 and one for helper1 naming helper2.
LowestAfterNamed ==
  Finished =>
    /\ \A f \in Fns :
         InvertedOf(f) # {} =>
           \E p \in InvertedOf(f) :
             /\ \A q \in InvertedOf(f) : Pos(p[2]) <= Pos(q[2])
             /\ {d \in DiagSet : d.span = functions[f].span}
                  = {DiagOf(f, p[2])}
    /\ module = Scenario3 => DiagSet = {DiagOf(3, 1), DiagOf(2, 1)}

\* The run over Scenario3 has finished.
LowestAfterNamedWitness == Finished /\ module = Scenario3

\* C3: the emitted sequence of diagnostics is the same for every iteration
\* order of the constraint set.
DeterministicDiagnostics ==
  Finished =>
    \A vs \in find_violations(must_come_before, functions) :
      EmitAll(vs) = diags

\* A finished run with two inverted pairs sharing their `before` and a third one.
DeterministicDiagnosticsWitness ==
  /\ Finished
  /\ \E f \in Fns : Cardinality(InvertedOf(f)) >= 2
  /\ Cardinality(Inverted) >= 3

\* C6: in a scope of exactly two functions foo and bar where foo calls bar,
\* nothing is emitted when foo is declared first, and exactly the diagnostic
\* "foo should be defined before bar" at foo when bar is declared first and
\* does not call foo.
CallerBeforeCallee ==
  Finished =>
    \A foo \in Fns : \A bar \in Fns :
      (Fns = {foo, bar} /\ foo # bar /\ Calls(foo, bar)) =>
        /\ Pos(foo) < Pos(bar) => diags = <<>>
        /\ (Pos(bar) < Pos(foo) /\ ~Calls(bar, foo))
             => diags = <<DiagOf(foo, bar)>>

\* A finished run over two functions, the callee declared first.
CallerBeforeCalleeWitness ==
  /\ Finished
  /\ \E foo \in Fns : \E bar \in Fns :
       /\ Fns = {foo, bar}
       /\ Calls(foo, bar)
       /\ ~Calls(bar, foo)
       /\ Pos(bar) < Pos(foo)
       /\ diags # <<>>

\* The constraint set when the sibling-order pass of caller a starts: the fold
\* over the callers declared before a, then a's caller-before-callee pass.
BeforeSiblingPass(a) ==
  build_caller_callee_constraint(a, CallSeq(a),
    FoldCallers(module, def_order, functions, Pos(a), {}))

\* The conflicts <<a, b, x, y>> of the module: callers a then b in declaration
\* order, a listing x before y and b listing y before x.
ConflictsIn(listed) ==
  UNION {UNION {{<<a, b, p[1], p[2]>> :
                   p \in {q \in listed[a] : <<q[2], q[1]>> \in listed[b]}}
                : b \in {g \in Fns : Pos(a) < Pos(g)}}
         : a \in Fns}

Conflicts ==
  UNION {ConflictsIn(listed) :
           listed \in {[f \in Fns |-> ListedPairs(CallSeq(f))]}}

\* The conflict is settled for a: (x,y) is in the final set, (y,x) is not, and
\* x is not flagged against y when it is declared before y.
SettledFor(x, y) ==
  /\ <<x, y>> \in must_come_before
  /\ <<y, x>> \notin must_come_before
  /\ Pos(x) < Pos(y) => DiagOf(x, y) \notin DiagSet

\* C2 as stated: whenever caller a, declared before caller b, lists x before
\* y and b lists y before x, the final set holds (x,y) and not (y,x).
OrderStableAlways ==
  Finished => \A c \in Conflicts : SettledFor(c[3], c[4])

\* C2, amended: the same, provided (y,x) is not yet in the set when a's
\* sibling-order pass starts (no earlier caller fixed it, and a's own
\* caller-before-callee pass did not).
OrderStableFirstWriter ==
  Finished =>
    \A c \in Conflicts :
      <<c[4], c[3]>> \notin BeforeSiblingPass(c[1]) => SettledFor(c[3], c[4])

\* A finished run with such a conflict between two callers, a being the first
\* to relate x and y.
OrderStableFirstWriterWitness ==
  /\ Finished
  /\ \E c \in Conflicts :
       /\ <<c[4], c[3]>> \notin BeforeSiblingPass(c[1])
       /\ <<c[3], c[4]>> \notin
            FoldCallers(module, def_order, functions, Pos(c[1]), {})

\* Module m without the k-th call expression of f's body.
WithoutCall(m, f, k) ==
  [m EXCEPT ![f].body =
     SubSeq(m[f].body, 1, k - 1) \o SubSeq(m[f].body, k + 1, Len(m[f].body))]

\* C10: a self-call in a function's body, at any place, is ignored: the
\* module without it gets the same diagnostics and a final set that differs
\* by at most (f,f), which is no violation.
SelfCallIgnored ==
  pc = "done" =>
    \A f \in Fns : \A k \in 1..Len(module[f].body) :
      module[f].body[k] = f =>
        \A m0 \in {WithoutCall(module, f, k)} :
          \A fns0 \in {Collect(m0).functions} : \A mcb0 \in {ConstraintsOf(m0)} :
            /\ mcb0 \ {<<f, f>>} = must_come_before \ {<<f, f>>}
            /\ <<f, f>> \notin Kept(must_come_before, functions)
            /\ \A vs \in find_violations(mcb0, fns0) : EmitAll(vs) = diags

\* A finished run with a diagnostic over a module in which a function calls
\* another function, then itself, then a third one.
SelfCallIgnoredWitness ==
  /\ Finished
  /\ diags # <<>>
  /\ \E f \in Fns :
       /\ Len(CallSeq(f)) >= 3
       /\ CallSeq(f)[2] = f
       /\ <<f, f>> \in must_come_before

PairsOf(n) == (n * (n - 1)) \div 2

\* No caller takes more iterations than CallerWork, and find_violations with
\* the emission loop no more than TailWork.
CallerWork == 1 + MaxItems + PairsOf(MaxItems)

TailWork == 1 + MaxItems * MaxItems

\* A bound on the number of steps check_mod still has to take.
Rank ==
  CASE pc = "start" -> 2 + MaxItems * CallerWork + TailWork
    [] pc = "callers" -> (Len(def_order) - ci + 1) * CallerWork + TailWork
    [] pc = "caller_callee" ->
         (Len(def_order) - ci) * CallerWork + (Len(callees) - i + 1)
           + PairsOf(Len(callees)) + TailWork
    [] pc = "precedence" ->
         (Len(def_order) - ci) * CallerWork + (Len(callees) - j + 1)
           + PairsOf(Len(callees) - i) + TailWork
    [] pc = "find" -> TailWork
    [] pc = "emit" -> Len(violations)
    [] OTHER -> 0

\* C7: for every module check_mod ends with its list of diagnostics and never
\* fails: every step brings the end nearer, no step is the failure of the
\* expect in find_violations, and check_mod can go on until it has ended.
Total ==
  /\ [][Rank' < Rank]_vars
  /\ [](Rank >= 0 /\ pc # "panic" /\ (pc # "done" => ENABLED Next))

\* A finished run over a module with a self-call, two functions calling each
\* other and two callers listing two callees in opposite orders.
TotalWitness ==
  /\ Finished
  /\ \E f \in Fns : Calls(f, f)
  /\ \E f \in Fns : \E g \in Fns \ {f} : Calls(f, g) /\ Calls(g, f)
  /\ Conflicts # {}

====
